---- MODULE Spec2Model ----
(***************************************************************************)
(* LogLoader (src/src/LogLoader.cpp): the download loop run(), the upload  *)
(* loop upload_logs_thread(), the MAVSDK log transfer invoking the         *)
(* progress callback of download_log, and the environment (armed signal,   *)
(* stop(), archive responses, process restart).                            *)
(*                                                                         *)
(* A log's date is modelled by its rank 1..NumLogs in lexicographic order; *)
(* the empty string is 0.  A path logging_directory + date + ".ulg" is     *)
(* named by the same rank.  File sizes are counted in blocks.              *)
(***************************************************************************)
EXTENDS Integers, Sequences, FiniteSets, TLC

NumLogs == 2
LogSize == 2
MaxRestarts == 1

Paths == 1..NumLogs
NoPath == 0
Absent == -1

\* HTTP statuses of the archive; NoResponse is a transport error
NoResponse == 0
HttpOk == 200
HttpRedirect == 302
HttpError == 500

VARIABLES
    armed,             \* _telemetry->armed()
    should_exit,       \* _should_exit
    exiting,           \* _exiting
    upload_enabled,    \* _settings.upload_enabled
    files,             \* logging directory: path -> size, Absent when missing
    ledger,            \* lines of _settings.uploaded_logs_file
    log_entries,       \* _log_entries
    current_download,  \* _current_download (first = path, second = completed)
    dlpc,              \* position of run()
    most_recent_log,   \* local of run()
    idx,               \* position of the for loop of download_all_logs
    caller,            \* which routine called download_log in this cycle
    transfer,          \* path the MAVSDK transfer is writing, NoPath when none
    prom,              \* value of the promise of download_log
    prom_sets,         \* number of prom.set_value calls of this download_log
    dl_result,         \* mavsdk result download_log got from the future
    ulpc,              \* position of upload_logs_thread()
    scan_pos,          \* position of the directory_iterator of get_logs_to_upload
    logs_to_upload,    \* eligible list, the part not yet iterated
    upload_joined,     \* upload_thread.join() has returned
    restarts,          \* number of process restarts so far
    dl_armed_seen,     \* last armed() value polled by run() in this iteration
    ul_armed_seen,     \* last armed() value polled by the upload loop
    cycle_dl,          \* dates download_log was called for in this cycle
    last_dl,           \* per path, how its most recent download_log ended
    ledger_status,     \* per ledger line, the archive response that led to it
    late_callback,     \* a callback arrived after the cancellation
    was_armed,         \* local of run(): the stall loop has waited
    fetch_result,      \* entries_result.first of request_log_entries
    pending,           \* dates a pass interrupted by arming left due and
                       \* unvisited, kept while a later pass can take place
    notify_pending,    \* stop() has set the flag and not yet notified
    cv_notified        \* _exit_cv was notified while run() waits on it

vars == <<armed, should_exit, exiting, upload_enabled, files, ledger,
          log_entries, current_download, dlpc, most_recent_log, idx, caller,
          transfer, prom, prom_sets, dl_result, ulpc, scan_pos,
          logs_to_upload, upload_joined, restarts, dl_armed_seen,
          ul_armed_seen, cycle_dl, last_dl, ledger_status, late_callback,
          was_armed, fetch_result, pending, notify_pending, cv_notified>>

envVars == <<armed, should_exit, upload_enabled, restarts, notify_pending,
             cv_notified>>
dlLocals == <<log_entries, most_recent_log, idx, caller, was_armed,
              fetch_result, pending>>
ulVars == <<ulpc, scan_pos, logs_to_upload, ul_armed_seen, ledger, ledger_status>>
xferVars == <<transfer, prom, prom_sets, exiting, late_callback>>

-----------------------------------------------------------------------------
\* The vehicle's catalog: entry i has date i and the final size LogSize
FullCatalog == [i \in 1..NumLogs |-> [date |-> i, size_bytes |-> LogSize]]

\* get_entries() answers with the logs the vehicle holds so far, in ascending
\* order of date (download_first_log takes back() as the newest)
Catalogs == {SubSeq(FullCatalog, 1, k) : k \in 0..NumLogs}

\* _settings.logging_directory + entry.date + ".ulg"
LogPath(date) == date

Exists(f, p) == f[p] # Absent

\* The logging directory at the first start: just created, no file in it
InitialFiles == [p \in Paths |-> Absent]

RECURSIVE MaxDate(_)
MaxDate(S) == IF S = {} THEN 0
              ELSE LET d == CHOOSE x \in S : TRUE
                       m == MaxDate(S \ {d})
                   IN IF d > m THEN d ELSE m

\* find_most_recent_log: the greatest date among the <date>.ulg files, "" if none
FindMostRecentLog(f) == MaxDate({p \in Paths : Exists(f, p)})

\* The process is running: run() has not returned and nothing has crashed
ProcessAlive == dlpc \notin {"returned", "crashed"}

-----------------------------------------------------------------------------
\* Volatile state of a freshly constructed LogLoader whose run() starts; the
\* flags _should_exit and _exiting start false
StartState ==
    /\ should_exit = FALSE
    /\ exiting = FALSE
    /\ log_entries = <<>>
    /\ current_download = [first |-> NoPath, second |-> FALSE]
    /\ dlpc = "loop_top"
    /\ most_recent_log = 0
    /\ idx = 1
    /\ caller = "none"
    /\ transfer = NoPath
    /\ prom = "unset"
    /\ prom_sets = 0
    /\ dl_result = "none"
    /\ ulpc = "start"
    /\ scan_pos = 1
    /\ logs_to_upload = <<>>
    /\ upload_joined = FALSE
    /\ dl_armed_seen = "unpolled"
    /\ ul_armed_seen = "unpolled"
    /\ cycle_dl = <<>>
    /\ last_dl = [p \in Paths |-> "none"]
    /\ late_callback = FALSE
    /\ was_armed = FALSE
    /\ fetch_result = "none"
    /\ pending = {}
    /\ notify_pending = FALSE
    /\ cv_notified = FALSE

Init ==
    /\ StartState
    /\ armed \in BOOLEAN
    /\ upload_enabled \in BOOLEAN
    /\ files = InitialFiles
    /\ ledger = <<>>
    /\ ledger_status = <<>>
    /\ restarts = 0

-----------------------------------------------------------------------------
\* Environment

\* The vehicle arms or disarms
ToggleArmed ==
    /\ ProcessAlive
    /\ armed' = ~armed
    /\ UNCHANGED <<should_exit, exiting, upload_enabled, files, ledger,
                   log_entries, current_download, dlpc, most_recent_log, idx,
                   caller, transfer, prom, prom_sets, dl_result, ulpc,
                   scan_pos, logs_to_upload, upload_joined, restarts,
                   dl_armed_seen, ul_armed_seen, cycle_dl, last_dl,
                   ledger_status, late_callback, was_armed, fetch_result,
                   pending, notify_pending, cv_notified>>

\* The lock of _exit_cv_mutex taken without regard to its holder
ExitMutexIgnored == TRUE

\* _exit_cv_mutex: run() holds it from the evaluation of the wait's
\* predicate until the wait has begun
ExitMutexFree == dlpc # "idle_locked"

\* stop(): set _should_exit under _exit_cv_mutex; the notification follows
stop ==
    /\ ProcessAlive
    /\ ~should_exit
    /\ ExitMutexFree
    /\ should_exit' = TRUE
    /\ notify_pending' = TRUE
    /\ pending' = {}
    /\ UNCHANGED <<armed, exiting, upload_enabled, files, ledger,
                   log_entries, current_download, dlpc, most_recent_log, idx,
                   caller, transfer, prom, prom_sets, dl_result, ulpc,
                   scan_pos, logs_to_upload, upload_joined, restarts,
                   dl_armed_seen, ul_armed_seen, cycle_dl, last_dl,
                   ledger_status, late_callback, was_armed, fetch_result,
                   cv_notified>>

\* stop(): _exit_cv.notify_one() wakes run() if it waits on _exit_cv
StopNotify ==
    /\ ProcessAlive
    /\ notify_pending
    /\ notify_pending' = FALSE
    /\ cv_notified' = (cv_notified \/ dlpc = "idle_wait")
    /\ UNCHANGED <<armed, should_exit, exiting, upload_enabled, files, ledger,
                   log_entries, current_download, dlpc, most_recent_log, idx,
                   caller, transfer, prom, prom_sets, dl_result, ulpc,
                   scan_pos, logs_to_upload, upload_joined, restarts,
                   dl_armed_seen, ul_armed_seen, cycle_dl, last_dl,
                   ledger_status, late_callback, was_armed, fetch_result,
                   pending>>

-----------------------------------------------------------------------------
\* download_log is called for entry: the promise is created,
\* _current_download_mutex is locked and the completed flag is reset.  f is
\* the directory the call finds.
DownloadLogStart(entry, f) ==
    /\ current_download' = [current_download EXCEPT !.second = FALSE]
    /\ files' = f
    /\ prom' = "unset"
    /\ prom_sets' = 0
    /\ dl_result' = "none"
    /\ cycle_dl' = Append(cycle_dl, entry.date)
    /\ dlpc' = "dl_publish"
    /\ UNCHANGED <<transfer, last_dl, pending>>

\* download_log: the path is published, _current_download_mutex is released
\* and download_log_file_async starts the transfer, which creates the file
\* empty
DownloadLogPublish ==
    /\ dlpc = "dl_publish"
    /\ LET download_path == LogPath(cycle_dl[Len(cycle_dl)]) IN
       /\ current_download' = [current_download EXCEPT !.first = download_path]
       /\ files' = [files EXCEPT ![download_path] = 0]
       /\ transfer' = download_path
       /\ last_dl' = [last_dl EXCEPT ![download_path] = "running"]
       /\ pending' = pending \ {cycle_dl[Len(cycle_dl)]}
    /\ dlpc' = "dl_wait"
    /\ UNCHANGED <<envVars, log_entries, most_recent_log, idx, caller,
                   was_armed, fetch_result, ulVars, prom, prom_sets, exiting,
                   late_callback, dl_result, upload_joined, cycle_dl,
                   dl_armed_seen>>

\* run(): while (!_should_exit) at the top of the main loop
RunLoopTop ==
    /\ dlpc = "loop_top"
    /\ dlpc' = IF should_exit THEN "join" ELSE "stall"
    /\ was_armed' = FALSE
    /\ fetch_result' = "none"
    /\ UNCHANGED <<envVars, log_entries, most_recent_log, idx, caller, pending,
                   ulVars, xferVars, files, current_download, dl_result,
                   upload_joined, cycle_dl, last_dl, dl_armed_seen>>

\* The stall loop with its test of armed() inverted
StallWhileInverted(se, a) == ~se /\ ~a

\* Condition of the stall loop: while (!_should_exit && _telemetry->armed())
StallWhile(se, a) == ~se /\ a

\* run(): one evaluation of the stall loop's condition and, when the loop is
\* left, if (_should_exit) return; which leaves the upload thread unjoined.
\* _should_exit only ever changes to true, so reading it in the loop
\* condition and again right after the loop is one read.
RunStall ==
    /\ dlpc = "stall"
    /\ dl_armed_seen' = IF should_exit THEN dl_armed_seen
                        ELSE IF armed THEN "armed" ELSE "disarmed"
    /\ dlpc' = IF StallWhile(should_exit, armed) THEN "stall"
               ELSE IF should_exit THEN "returned"
               ELSE "request"
    /\ was_armed' = (was_armed \/ StallWhile(should_exit, armed))
    /\ UNCHANGED <<envVars, log_entries, most_recent_log, idx, caller,
                   fetch_result, pending, ulVars, xferVars, files,
                   current_download, dl_result, upload_joined, cycle_dl, last_dl>>

\* The cycle going on whatever the fetch returned
AfterFetchNoRetry(result) == "find_recent"

\* run(): if (!request_log_entries()) { sleep; continue; }
AfterFetch(result) == IF result = "Success" THEN "find_recent" ELSE "loop_top"

\* run(): the grace sleep after a stall, then request_log_entries: on
\* success _log_entries is replaced by the fetched catalog, on failure it is
\* left as it was and false is returned
request_log_entries ==
    /\ dlpc = "request"
    /\ was_armed' = FALSE
    /\ \E result \in {"Success", "Failed"}, cat \in Catalogs :
          /\ fetch_result' = result
          /\ log_entries' = IF result = "Success" THEN cat ELSE log_entries
          /\ dlpc' = AfterFetch(result)
          /\ dl_armed_seen' = IF AfterFetch(result) = "loop_top"
                              THEN "unpolled" ELSE dl_armed_seen
    /\ UNCHANGED <<envVars, most_recent_log, idx, caller, pending, ulVars,
                   xferVars, files, current_download, dl_result,
                   upload_joined, cycle_dl, last_dl>>

\* run(): most_recent_log = find_most_recent_log() and the choice of policy
RunFindMostRecent ==
    /\ dlpc = "find_recent"
    /\ most_recent_log' = FindMostRecentLog(files)
    /\ idx' = 1
    /\ dlpc' = IF FindMostRecentLog(files) = 0 THEN "first" ELSE "all_check"
    /\ UNCHANGED <<envVars, log_entries, caller, was_armed, fetch_result,
                   pending, ulVars, xferVars, files, current_download,
                   dl_result, upload_joined, cycle_dl, last_dl, dl_armed_seen>>

\* download_first_log: download _log_entries.back().  On an empty vector
\* back() is undefined: the process crashes or an entry that is not in the
\* fetched catalog is read.
download_first_log ==
    /\ dlpc = "first"
    /\ caller' = "first"
    /\ \/ /\ log_entries # <<>>
          /\ DownloadLogStart(log_entries[Len(log_entries)], files)
       \/ /\ log_entries = <<>>
          /\ \/ /\ dlpc' = "crashed"
                /\ UNCHANGED <<current_download, files, transfer, prom,
                               prom_sets, dl_result, cycle_dl, last_dl>>
             \/ \E i \in 1..NumLogs : DownloadLogStart(FullCatalog[i], files)
    /\ UNCHANGED <<envVars, log_entries, most_recent_log, idx, was_armed,
                   fetch_result, pending, ulVars, exiting, late_callback,
                   upload_joined, dl_armed_seen>>

\* The early return taken on a shutdown request only
AbortPassOnShutdownOnly(a, se) == se

\* Condition on which download_all_logs returns before visiting an entry
AbortPass(a, se) == a \/ se

\* The dates of the entries from position i on that are due for a download:
\* a file smaller than the catalog's size, or no file and a date after recent
DueFrom(f, entries, i, recent) ==
    {entries[j].date : j \in {k \in i..Len(entries) :
        \/ f[entries[k].date] # Absent /\ f[entries[k].date] < entries[k].size_bytes
        \/ f[entries[k].date] = Absent /\ entries[k].date > recent}}

\* download_all_logs: loop condition and if (armed() || _should_exit) return
DownloadAllCheck ==
    /\ dlpc = "all_check"
    /\ IF idx > Len(log_entries)
       THEN /\ dlpc' = "idle_check"
            /\ UNCHANGED <<dl_armed_seen, pending>>
       ELSE /\ dl_armed_seen' = IF armed THEN "armed" ELSE "disarmed"
            /\ dlpc' = IF AbortPass(armed, should_exit) THEN "idle_check"
                       ELSE "all_visit"
            /\ pending' = IF armed /\ dlpc' = "idle_check"
                          THEN pending \cup DueFrom(files, log_entries, idx,
                                                    most_recent_log)
                          ELSE pending
    /\ UNCHANGED <<envVars, log_entries, most_recent_log, idx, caller,
                   was_armed, fetch_result, ulVars, xferVars, files,
                   current_download, dl_result, upload_joined, cycle_dl, last_dl>>

\* A size test that never finds a file incomplete
IncompleteNever(f, entry) == FALSE

\* The size test with <= in place of <
IncompleteOrEqual(f, entry) ==
    f[entry.date] # Absent /\ f[entry.date] <= entry.size_bytes

\* fs::exists(log_path) && fs::file_size(log_path) < entry.size_bytes
Incomplete(f, entry) ==
    Exists(f, LogPath(entry.date)) /\ f[LogPath(entry.date)] < entry.size_bytes

\* A test for a new entry that never finds one
IsNewerNever(f, entry, recent) == FALSE

\* The test for a new entry without the comparison of dates
IsNewerAnyDate(f, entry, recent) == f[entry.date] = Absent

\* !fs::exists(log_path) && entry.date > most_recent_log
IsNewer(f, entry, recent) ==
    ~Exists(f, LogPath(entry.date)) /\ entry.date > recent

\* download_all_logs: the body of the loop for the entry at idx
DownloadAllVisit ==
    /\ dlpc = "all_visit"
    /\ LET entry == log_entries[idx]
           log_path == LogPath(entry.date)
       IN IF Incomplete(files, entry)
          THEN /\ DownloadLogStart(entry, [files EXCEPT ![log_path] = Absent])
               /\ caller' = "all"
               /\ UNCHANGED idx
          ELSE IF IsNewer(files, entry, most_recent_log)
          THEN /\ DownloadLogStart(entry, files)
               /\ caller' = "all"
               /\ UNCHANGED idx
          ELSE /\ idx' = idx + 1
               /\ dlpc' = "all_check"
               /\ UNCHANGED <<caller, current_download, files, transfer, prom,
                              prom_sets, dl_result, cycle_dl, last_dl>>
    /\ UNCHANGED <<envVars, log_entries, most_recent_log, was_armed,
                   fetch_result, pending, ulVars, exiting, late_callback,
                   upload_joined, dl_armed_seen>>

\* download_log from future_result.get() on: take the result, mark the
\* download completed on success, and return to the caller
DownloadLogFinish ==
    /\ dlpc = "dl_wait"
    /\ prom # "unset"
    /\ dl_result' = prom
    /\ LET download_path == current_download.first IN
       IF prom = "Success"
       THEN /\ current_download' = [current_download EXCEPT !.second = TRUE]
            /\ last_dl' = [last_dl EXCEPT ![download_path] = "ok"]
       ELSE /\ UNCHANGED current_download
            /\ last_dl' = [last_dl EXCEPT ![download_path] = "failed"]
    /\ IF caller = "first"
       THEN /\ dlpc' = "idle_check"
            /\ UNCHANGED idx
       ELSE /\ dlpc' = "all_check"
            /\ idx' = idx + 1
    /\ UNCHANGED <<envVars, log_entries, most_recent_log, caller, was_armed,
                   fetch_result, pending, ulVars, xferVars, files,
                   upload_joined, cycle_dl, dl_armed_seen>>

\* run(): if (!_should_exit), then _exit_cv_mutex is locked and wait_for
\* evaluates its predicate, returning at once when _should_exit is set;
\* the cycle's locals end.  The lock waits for stop() to leave its critical
\* section, and _should_exit only ever changes to true, so the two reads
\* are one.
RunIdleCheck ==
    /\ dlpc = "idle_check"
    /\ dlpc' = IF should_exit THEN "loop_top" ELSE "idle_locked"
    /\ most_recent_log' = 0
    /\ idx' = 1
    /\ caller' = "none"
    /\ cycle_dl' = <<>>
    /\ dl_result' = "none"
    /\ dl_armed_seen' = "unpolled"
    /\ fetch_result' = "none"
    /\ UNCHANGED <<envVars, log_entries, was_armed, pending, ulVars, xferVars,
                   files, current_download, upload_joined, last_dl>>

\* run(): wait_for releases _exit_cv_mutex and blocks, in one step
RunIdleBlock ==
    /\ dlpc = "idle_locked"
    /\ dlpc' = "idle_wait"
    /\ UNCHANGED <<envVars, dlLocals, ulVars, xferVars, files,
                   current_download, dl_result, upload_joined, cycle_dl,
                   last_dl, dl_armed_seen>>

\* run(): _exit_cv.wait_for returns, woken by the notification or on the
\* timeout
RunIdleWait ==
    /\ dlpc = "idle_wait"
    /\ dlpc' = "loop_top"
    /\ cv_notified' = FALSE
    /\ UNCHANGED <<armed, should_exit, upload_enabled, restarts,
                   notify_pending, dlLocals, ulVars, xferVars, files,
                   current_download, dl_result, upload_joined, cycle_dl,
                   last_dl, dl_armed_seen>>

\* run(): upload_thread.join() returns once the upload thread has ended
RunJoin ==
    /\ dlpc = "join"
    /\ ulpc = "done"
    /\ upload_joined' = TRUE
    /\ dlpc' = "returned"
    /\ UNCHANGED <<envVars, dlLocals, ulVars, xferVars, files,
                   current_download, dl_result, cycle_dl, last_dl,
                   dl_armed_seen>>

-----------------------------------------------------------------------------
\* The callback without the assignment _exiting = true
CallbackEffectNoGuard(ex, se, result, p, n) ==
    IF ex THEN <<ex, p, n>>
    ELSE IF se THEN <<ex, "Timeout", n + 1>>
    ELSE IF result # "Next" THEN <<ex, result, n + 1>>
    ELSE <<ex, p, n>>

\* The callback without the test of _should_exit
CallbackEffectNoCancel(ex, se, result, p, n) ==
    IF ex THEN <<ex, p, n>>
    ELSE IF result # "Next" THEN <<ex, result, n + 1>>
    ELSE <<ex, p, n>>

\* The handler part of the progress callback: the new <<_exiting, prom,
\* number of set_value calls>> after one invocation with the given result
CallbackEffect(ex, se, result, p, n) ==
    IF ex THEN <<ex, p, n>>
    ELSE IF se THEN <<TRUE, "Timeout", n + 1>>
    ELSE IF result # "Next" THEN <<ex, result, n + 1>>
    ELSE <<ex, p, n>>

\* The transfer writes to the file and invokes the progress callback with a
\* non-terminal status (Next) or with its one terminal status
ProgressCallback ==
    /\ ProcessAlive
    /\ transfer # NoPath
    /\ \E result \in {"Next", "Success", "Failed"} :
          /\ files' = [files EXCEPT ![transfer] =
                          IF result = "Success" THEN LogSize
                          ELSE IF result = "Next" /\ @ < LogSize - 1 THEN @ + 1
                          ELSE @]
          /\ transfer' = IF result = "Next" THEN transfer ELSE NoPath
          /\ LET eff == CallbackEffect(exiting, should_exit, result, prom, prom_sets)
             IN /\ exiting' = eff[1]
                /\ prom' = eff[2]
                /\ prom_sets' = IF eff[3] > 2 THEN 2 ELSE eff[3]
          /\ late_callback' = (late_callback \/ exiting)
    /\ UNCHANGED <<envVars, dlLocals, ulVars, dlpc, current_download,
                   dl_result, upload_joined, cycle_dl, last_dl, dl_armed_seen>>

-----------------------------------------------------------------------------
\* A membership test that never finds the path
LedgerNeverMatches(led, file_path) == FALSE

\* log_has_been_uploaded: some line of the ledger file equals the path
log_has_been_uploaded(led, file_path) ==
    \E i \in 1..Len(led) : led[i] = file_path

\* A completeness test that ignores the completed flag
AlwaysComplete(cd, log_path) == TRUE

\* log_download_complete: under _current_download_mutex, the completed flag
\* for the path being downloaded and true for any other path
log_download_complete(cd, log_path) ==
    IF cd.first = log_path THEN cd.second ELSE TRUE

\* should_upload of get_logs_to_upload
ShouldUpload(led, cd, log_path) ==
    ~log_has_been_uploaded(led, log_path) /\ log_download_complete(cd, log_path)

\* send_log_to_server_it: true for any response, false for a transport error
send_log_to_server_it(status) == status # NoResponse

\* server_reachable: res && res->status == 200
server_reachable(status) == status = HttpOk

\* upload_logs_thread: return at once when uploads are disabled, else start
\* the loop after the startup delay
UploadStart ==
    /\ ProcessAlive
    /\ ulpc = "start"
    /\ ulpc' = IF upload_enabled THEN "loop_top" ELSE "done"
    /\ UNCHANGED <<envVars, dlLocals, xferVars, files, ledger, current_download,
                   dlpc, dl_result, scan_pos, logs_to_upload, upload_joined,
                   dl_armed_seen, ul_armed_seen, cycle_dl, last_dl, ledger_status>>

\* upload_logs_thread: while (!_should_exit) and, inside the loop,
\* if (_telemetry->armed()) { sleep; continue; }
UploadLoopTop ==
    /\ ProcessAlive
    /\ ulpc = "loop_top"
    /\ ulpc' = IF should_exit THEN "done"
               ELSE IF armed THEN "loop_top"
               ELSE "scan"
    /\ ul_armed_seen' = IF ~should_exit /\ ~armed THEN "disarmed" ELSE "unpolled"
    /\ scan_pos' = 1
    /\ logs_to_upload' = <<>>
    /\ UNCHANGED <<envVars, dlLocals, xferVars, files, ledger, current_download,
                   dlpc, dl_result, upload_joined, dl_armed_seen, cycle_dl,
                   last_dl, ledger_status>>

\* The lock of _current_download_mutex taken without regard to its holder
DownloadMutexIgnored == TRUE

\* _current_download_mutex: download_log holds it while it writes the two
\* fields of _current_download
DownloadMutexFree == dlpc # "dl_publish"

\* get_logs_to_upload: one step of the directory iteration;
\* log_download_complete, called for a path the ledger does not hold, locks
\* _current_download_mutex
get_logs_to_upload ==
    /\ ProcessAlive
    /\ ulpc = "scan"
    /\ (Exists(files, scan_pos) /\ ~log_has_been_uploaded(ledger, scan_pos))
          => DownloadMutexFree
    /\ logs_to_upload' =
           IF Exists(files, scan_pos)
              /\ ShouldUpload(ledger, current_download, scan_pos)
           THEN Append(logs_to_upload, scan_pos)
           ELSE logs_to_upload
    /\ IF scan_pos < NumLogs
       THEN /\ scan_pos' = scan_pos + 1
            /\ UNCHANGED ulpc
       ELSE /\ scan_pos' = 1
            /\ ulpc' = "iter"
    /\ UNCHANGED <<envVars, dlLocals, xferVars, files, ledger, current_download,
                   dlpc, dl_result, upload_joined, dl_armed_seen, ul_armed_seen,
                   cycle_dl, last_dl, ledger_status>>

\* upload_logs_thread: the head of the for loop over logs_to_upload, with
\* if (armed() || _should_exit) continue; an exhausted list ends the pass
UploadIter ==
    /\ ProcessAlive
    /\ ulpc = "iter"
    /\ IF logs_to_upload = <<>>
       THEN /\ ulpc' = "loop_top"
            /\ ul_armed_seen' = "unpolled"
            /\ UNCHANGED logs_to_upload
       ELSE /\ ul_armed_seen' = IF armed THEN "armed" ELSE "disarmed"
            /\ IF AbortPass(armed, should_exit)
               THEN /\ logs_to_upload' = Tail(logs_to_upload)
                    /\ UNCHANGED ulpc
               ELSE /\ ulpc' = "probe"
                    /\ UNCHANGED logs_to_upload
    /\ UNCHANGED <<envVars, dlLocals, xferVars, files, ledger, current_download,
                   dlpc, dl_result, scan_pos, upload_joined, dl_armed_seen,
                   cycle_dl, last_dl, ledger_status>>

\* upload_logs_thread: if (server_reachable()) for the head of the list
UploadProbe ==
    /\ ProcessAlive
    /\ ulpc = "probe"
    /\ \E status \in {NoResponse, HttpOk, HttpError} :
          IF server_reachable(status)
          THEN /\ ulpc' = "send"
               /\ UNCHANGED logs_to_upload
          ELSE /\ ulpc' = "iter"
               /\ logs_to_upload' = Tail(logs_to_upload)
    /\ UNCHANGED <<envVars, dlLocals, xferVars, files, ledger, current_download,
                   dlpc, dl_result, scan_pos, upload_joined, dl_armed_seen,
                   ul_armed_seen, cycle_dl, last_dl, ledger_status>>

\* upload_logs_thread: send the head of the list and, when the send reports
\* success, mark_log_as_uploaded appends the path to the ledger file
UploadSend ==
    /\ ProcessAlive
    /\ ulpc = "send"
    /\ \E status \in {NoResponse, HttpRedirect, HttpError} :
          IF send_log_to_server_it(status)
          THEN /\ ledger' = Append(ledger, Head(logs_to_upload))
               /\ ledger_status' = Append(ledger_status, status)
          ELSE UNCHANGED <<ledger, ledger_status>>
    /\ logs_to_upload' = Tail(logs_to_upload)
    /\ ulpc' = "iter"
    /\ UNCHANGED <<envVars, dlLocals, xferVars, files, current_download,
                   dlpc, dl_result, scan_pos, upload_joined, dl_armed_seen,
                   ul_armed_seen, cycle_dl, last_dl>>

-----------------------------------------------------------------------------
\* The process has ended and is started again: the logging directory and
\* the ledger file persist, everything else is constructed anew
Restart ==
    /\ ~ProcessAlive
    /\ restarts < MaxRestarts
    /\ restarts' = restarts + 1
    /\ should_exit' = FALSE
    /\ exiting' = FALSE
    /\ log_entries' = <<>>
    /\ current_download' = [first |-> NoPath, second |-> FALSE]
    /\ dlpc' = "loop_top"
    /\ most_recent_log' = 0
    /\ idx' = 1
    /\ caller' = "none"
    /\ transfer' = NoPath
    /\ prom' = "unset"
    /\ prom_sets' = 0
    /\ dl_result' = "none"
    /\ ulpc' = "start"
    /\ scan_pos' = 1
    /\ logs_to_upload' = <<>>
    /\ upload_joined' = FALSE
    /\ dl_armed_seen' = "unpolled"
    /\ ul_armed_seen' = "unpolled"
    /\ cycle_dl' = <<>>
    /\ last_dl' = [p \in Paths |-> "none"]
    /\ late_callback' = FALSE
    /\ was_armed' = FALSE
    /\ fetch_result' = "none"
    /\ pending' = {}
    /\ notify_pending' = FALSE
    /\ cv_notified' = FALSE
    /\ UNCHANGED <<armed, upload_enabled, files, ledger, ledger_status>>

Next ==
    \/ ToggleArmed
    \/ stop
    \/ StopNotify
    \/ RunLoopTop
    \/ RunStall
    \/ request_log_entries
    \/ RunFindMostRecent
    \/ download_first_log
    \/ DownloadAllCheck
    \/ DownloadAllVisit
    \/ DownloadLogPublish
    \/ DownloadLogFinish
    \/ RunIdleCheck
    \/ RunIdleBlock
    \/ RunIdleWait
    \/ RunJoin
    \/ ProgressCallback
    \/ UploadStart
    \/ UploadLoopTop
    \/ get_logs_to_upload
    \/ UploadIter
    \/ UploadProbe
    \/ UploadSend
    \/ Restart

Spec == Init /\ [][Next]_vars

\* The transfer keeps invoking the progress callback, and the download
\* thread blocked in future_result.get() runs once the promise is set
FairSpec ==
    /\ Init
    /\ [][Next]_vars
    /\ WF_vars(ProgressCallback)
    /\ WF_vars(DownloadLogFinish)

-----------------------------------------------------------------------------
\* Steps the properties below speak about

Range(seq) == {seq[i] : i \in 1..Len(seq)}

IsPrefix(s, t) == Len(s) <= Len(t) /\ SubSeq(t, 1, Len(s)) = s

\* get_logs_to_upload decides about the path at scan_pos
ScanStep ==
    /\ ProcessAlive
    /\ ulpc = "scan"
    /\ (scan_pos' = scan_pos + 1 \/ ulpc' = "iter")

\* download_log is called
DownloadStartStep == dlpc # "dl_wait" /\ dlpc' = "dl_wait"

\* the upload of the head of logs_to_upload is issued
UploadSendStep == ProcessAlive /\ ulpc = "send" /\ ulpc' = "iter"

\* download_all_logs handles the entry at idx
VisitStep == dlpc = "all_visit" /\ dlpc' # "all_visit"

-----------------------------------------------------------------------------
\* C1: an upload scan never selects the path that is the active download
\* while completed is false, and a scan that finds a path whose download_log
\* has set completed = true, and that is not in the ledger, selects it.
ActiveDownloadNotSelected ==
    [][ScanStep =>
          /\ (current_download.first = scan_pos /\ ~current_download.second)
                => logs_to_upload' = logs_to_upload
          /\ (/\ last_dl[scan_pos] = "ok"
              /\ files[scan_pos] # Absent
              /\ scan_pos \notin Range(ledger))
                => logs_to_upload' = Append(logs_to_upload, scan_pos)]_vars

\* A scan has passed over path 1 while it is being downloaded, not selecting it
ActiveDownloadSkipped ==
    /\ ulpc = "scan"
    /\ scan_pos = 2
    /\ current_download = [first |-> 1, second |-> FALSE]
    /\ transfer = 1
    /\ files[1] # Absent
    /\ 1 \notin Range(ledger)
    /\ logs_to_upload = <<>>

\* C2: a path whose download_log ended in failure or cancellation is not
\* selected by an upload scan until a later download of it has succeeded.
FailedDownloadNotSelected ==
    [][ScanStep =>
          (last_dl[scan_pos] = "failed" /\ files[scan_pos] < LogSize
              => logs_to_upload' = logs_to_upload)]_vars

\* C3 as stated: the armed signal is false whenever a download or an upload
\* is issued.
NoTransferIssuedWhileArmed ==
    [][(DownloadStartStep \/ UploadSendStep) => ~armed]_vars

\* C3 as amended: a download or an upload is issued only after the issuing
\* loop's latest armed() poll of the current iteration returned false.
TransferIssuedAfterDisarmedPoll ==
    [][/\ DownloadStartStep => dl_armed_seen = "disarmed"
       /\ UploadSendStep => ul_armed_seen = "disarmed"]_vars

\* A download has been issued after a disarmed poll and the vehicle is armed
DownloadIssuedThenArmed ==
    /\ dlpc = "dl_wait"
    /\ prom = "unset"
    /\ dl_armed_seen = "disarmed"
    /\ armed

\* C4: when run() has returned, the upload thread has ended and been joined.
RunReturnsAfterJoin ==
    dlpc = "returned" => (upload_joined /\ ulpc = "done")

\* C5: if stop() is called while a download is in flight, download_log
\* returns the cancelled result with completed still false.
CancelledDownloadReturns ==
    (should_exit /\ dlpc = "dl_wait" /\ prom = "unset")
        ~> (dl_result = "Timeout" /\ ~current_download.second)

\* download_log has returned cancelled while the transfer is still running
CancelledBeforeTransferEnds ==
    /\ dl_result = "Timeout"
    /\ ~current_download.second
    /\ transfer = current_download.first
    /\ transfer # NoPath

\* C6: the promise of a download_log call is set exactly once, and callbacks
\* arriving after the cancellation do not set it again.
PromiseSetOnce ==
    /\ prom_sets <= 1
    /\ dl_result # "none" => (prom_sets = 1 /\ prom = dl_result)
    /\ late_callback => (prom_sets = 1 /\ prom = "Timeout")

\* A callback has arrived after the cancellation
LateCallbackIgnored ==
    /\ late_callback
    /\ exiting
    /\ prom_sets = 1

\* C7: the ledger only grows, a scan never selects a path that is in the
\* ledger, and no upload is issued for a path that is in the ledger.
LedgerIdempotent ==
    [][/\ IsPrefix(ledger, ledger')
       /\ ScanStep => (scan_pos \in Range(ledger)
                          => logs_to_upload' = logs_to_upload)
       /\ UploadSendStep => Head(logs_to_upload) \notin Range(ledger)]_vars

\* After a restart a scan has passed over path 1, which is in the ledger
LedgerPathSkippedAfterRestart ==
    /\ restarts = 1
    /\ ulpc = "scan"
    /\ scan_pos = 2
    /\ files[1] = LogSize
    /\ 1 \in Range(ledger)
    /\ logs_to_upload = <<>>

\* C8: every line of the ledger was appended after the archive answered the
\* upload with the redirect (302).
LedgerOnlyAfterRedirect ==
    \A i \in 1..Len(ledger_status) : ledger_status[i] = HttpRedirect

\* C9: with no local log, the cycle issues exactly one download, for the
\* last entry of the fetched catalog.
FirstLogDownloadsTail ==
    (caller = "first" /\ dlpc \in {"dl_wait", "idle_check", "crashed"})
        => /\ log_entries # <<>>
           /\ cycle_dl = <<log_entries[Len(log_entries)].date>>

\* C10: visiting an entry whose local file exists with size not less than
\* size_bytes starts no download and leaves the file untouched.
CompleteFileSkipped ==
    [][(/\ VisitStep
        /\ files[log_entries[idx].date] # Absent
        /\ files[log_entries[idx].date] >= log_entries[idx].size_bytes
        /\ log_entries[idx].date <= most_recent_log)
          => /\ files' = files
             /\ cycle_dl' = cycle_dl
             /\ transfer' = transfer
             /\ current_download' = current_download
             /\ dlpc' = "all_check"]_vars

\* An entry with a complete local file has been visited without a download
CompleteFileVisited ==
    /\ dlpc = "all_check"
    /\ idx = 2
    /\ files[log_entries[1].date] = log_entries[1].size_bytes
    /\ cycle_dl = <<>>

\* Positions of run() inside one pass of download_all_logs
PassPositions == {"all_check", "all_visit", "dl_publish", "dl_wait"}

\* C12: a loop stops (run() leaves its main loop or the process ends, the
\* upload loop ends) only after stop() has been called.
LoopsStopOnlyOnShutdown ==
    (\/ dlpc \in {"join", "returned", "crashed"}
     \/ (upload_enabled /\ ulpc = "done"))
        => should_exit

\* C13: in a pass of download_all_logs an entry with no local file is
\* downloaded if and only if its date is greater than the most recent local
\* date, which is computed once when the pass starts.
NewerEntryDownloaded ==
    [][/\ (VisitStep /\ files[log_entries[idx].date] = Absent)
            => IF log_entries[idx].date > most_recent_log
               THEN cycle_dl' = Append(cycle_dl, log_entries[idx].date)
               ELSE cycle_dl' = cycle_dl /\ files' = files /\ dlpc' = "all_check"
       /\ (dlpc = "find_recent" /\ dlpc' = "all_check")
            => /\ files[most_recent_log'] # Absent
               /\ \A p \in Paths : files[p] # Absent => p <= most_recent_log'
       /\ (dlpc \in PassPositions /\ dlpc' \in PassPositions)
            => most_recent_log' = most_recent_log]_vars

\* An entry older than the most recent local log, with no local file, has
\* been visited without a download
OlderMissingEntrySkipped ==
    /\ dlpc = "all_check"
    /\ idx = 2
    /\ log_entries[1].date = 1
    /\ files[1] = Absent
    /\ most_recent_log = 2
    /\ cycle_dl = <<>>

\* C14: when download_all_logs finds armed() or a shutdown request before an
\* entry, it deletes and downloads nothing for that entry and ends the pass.
PassAbortsEarly ==
    [][/\ (/\ dlpc = "all_check"
           /\ dlpc' # "all_check"
           /\ idx <= Len(log_entries)
           /\ (armed \/ should_exit))
            => /\ dlpc' = "idle_check"
               /\ files' = files
               /\ cycle_dl' = cycle_dl
               /\ current_download' = current_download
               /\ transfer' = transfer
       /\ (dlpc # "all_visit" /\ dlpc' = "all_visit")
            => (dlpc = "all_check" /\ ~armed /\ ~should_exit)
       /\ dlpc = "idle_check"
            => (dlpc' \notin PassPositions /\ cycle_dl' \in {cycle_dl, <<>>})]_vars

\* A pass has been aborted on armed() before an entry it would have downloaded
PassAbortedBeforeNewEntry ==
    /\ dlpc = "idle_check"
    /\ dl_armed_seen = "armed"
    /\ idx <= Len(log_entries)
    /\ files[log_entries[idx].date] = Absent
    /\ log_entries[idx].date > most_recent_log

\* C16: once the upload loop has found armed() or a shutdown request at a
\* file of the eligible list, it probes and uploads no later file of the list.
UploadBatchAborted ==
    [][(ulpc = "iter" /\ ul_armed_seen = "armed") => ulpc' # "probe"]_vars

\* C20, for a start while the vehicle is armed: when the upload loop
\* evaluates the status of an incomplete log left by a previous run, the
\* download loop has marked it as the download in progress.  The case taken
\* is the one where run() has stalled on armed, is in its grace sleep before
\* the first fetch of the catalog, and has not obtained an entry yet.
LeftoverMarkedBeforeScan ==
    [][(/\ ScanStep
        /\ restarts > 0
        /\ last_dl[scan_pos] = "none"
        /\ files[scan_pos] # Absent
        /\ files[scan_pos] < LogSize
        /\ dlpc = "request"
        /\ was_armed
        /\ log_entries = <<>>)
          => current_download.first = scan_pos]_vars

\* C11: in a pass of download_all_logs, a visited entry whose file exists
\* with a size below size_bytes has the file deleted and download_log called
\* for it; the call publishes that path and starts its transfer, the pass
\* then moves on to the next entry, and no date is downloaded twice in a
\* cycle.
IncompleteFileRedownloaded ==
    [][/\ (/\ VisitStep
           /\ files[log_entries[idx].date] # Absent
           /\ files[log_entries[idx].date] < log_entries[idx].size_bytes)
             => /\ files' = [files EXCEPT ![log_entries[idx].date] = Absent]
                /\ cycle_dl' = Append(cycle_dl, log_entries[idx].date)
                /\ dlpc' = "dl_publish"
       /\ (dlpc = "dl_publish" /\ dlpc' # "dl_publish")
             => /\ dlpc' = "dl_wait"
                /\ transfer' = cycle_dl[Len(cycle_dl)]
                /\ current_download'.first = cycle_dl[Len(cycle_dl)]
                /\ cycle_dl' = cycle_dl
       /\ (dlpc = "dl_wait" /\ dlpc' # "dl_wait" /\ caller = "all")
             => /\ dlpc' = "all_check"
                /\ idx' = idx + 1
                /\ cycle_dl' = cycle_dl
       /\ Cardinality(Range(cycle_dl')) = Len(cycle_dl')]_vars

\* A pass has deleted an incomplete file and called download_log for it
IncompleteFileDeleted ==
    /\ dlpc = "dl_publish"
    /\ caller = "all"
    /\ files[cycle_dl[Len(cycle_dl)]] = Absent
    /\ cycle_dl[Len(cycle_dl)] <= most_recent_log

FetchFailureRetries ==
    [](dlpc \in {"find_recent", "first", "all_check", "all_visit",
                 "dl_publish", "dl_wait"} => fetch_result = "Success")
    /\ [][/\ (dlpc = "request" /\ fetch_result' = "Failed")
               => /\ dlpc' = "loop_top"
                  /\ log_entries' = log_entries
                  /\ files' = files
                  /\ cycle_dl' = cycle_dl
                  /\ transfer' = transfer
                  /\ current_download' = current_download
          /\ (fetch_result = "Failed" /\ dlpc' # dlpc)
               => dlpc' \in {"stall", "join"}]_vars

\* A fetch has failed while a catalog with an entry due for a download is
\* stored
FetchFailedWithStoredCatalog ==
    /\ dlpc = "loop_top"
    /\ fetch_result = "Failed"
    /\ DueFrom(files, log_entries, 1, FindMostRecentLog(files)) # {}

\* C18: get_logs_to_upload reads _current_download only while download_log
\* is not between its two writes, and a record it reads as <<path, true>>
\* is that of a download of the path that succeeded.
DownloadRecordNotReadMidWrite ==
    [][(/\ ScanStep
        /\ files[scan_pos] # Absent
        /\ scan_pos \notin Range(ledger))
          => /\ dlpc # "dl_publish"
             /\ (current_download.first = scan_pos /\ current_download.second)
                   => last_dl[scan_pos] = "ok"]_vars

\* download_log is between its two writes, the record still naming the
\* previous, completed download, while the scan is at a file it must judge
UploadScanWaitsForRecord ==
    /\ dlpc = "dl_publish"
    /\ ulpc = "scan"
    /\ files[scan_pos] # Absent
    /\ scan_pos \notin Range(ledger)
    /\ current_download.first # NoPath
    /\ current_download.first # cycle_dl[Len(cycle_dl)]
    /\ last_dl[current_download.first] = "ok"
    /\ ~current_download.second

\* C19: run() is never between the predicate of its idle wait and the wait
\* itself with _should_exit set, a run() that waits with _should_exit set
\* has been notified or is about to be, it leaves the wait for the top of
\* the loop, and from there it leaves the loop.
ShutdownWakesIdleWait ==
    [](/\ dlpc = "idle_locked" => ~should_exit
       /\ (dlpc = "idle_wait" /\ should_exit) => (cv_notified \/ notify_pending))
    /\ [][/\ (dlpc = "idle_wait" /\ dlpc' # dlpc) => dlpc' = "loop_top"
          /\ (dlpc = "loop_top" /\ should_exit /\ dlpc' # dlpc)
               => dlpc' = "join"]_vars

\* stop() has notified _exit_cv while run() waits on it
StopWhileWaiting ==
    /\ dlpc = "idle_wait"
    /\ should_exit
    /\ cv_notified

TypeOK ==
    /\ armed \in BOOLEAN /\ should_exit \in BOOLEAN /\ exiting \in BOOLEAN
    /\ files \in [Paths -> Absent..LogSize]
    /\ current_download.first \in Paths \cup {NoPath}
    /\ transfer \in Paths \cup {NoPath}
    /\ prom_sets \in 0..2
    /\ Len(ledger) = Len(ledger_status)

====
